---------------------------- MODULE Spec2Model ----------------------------
(***************************************************************************)
(* A model of SQrLite, a read-only decoder of the SQLite file format:      *)
(* the varint codec (varint.rs), the database header (db.rs), the b-tree   *)
(* page reader (btree_page.rs) and the cell parser and spillage formula    *)
(* (cell.rs).                                                              *)
(*                                                                         *)
(* Rust's fixed-width unsigned integers that can exceed TLC's integers     *)
(* (u64, and u32 after a wrap) are little-endian sequences of base-256     *)
(* limbs.  An arithmetic overflow panics in a build with overflow checks   *)
(* (the debug profile) and wraps in one without (the release profile):     *)
(* the variable overflow_checks is the profile of the build, chosen in     *)
(* Init and never changed.  A panic ends the run (pc = "panicked").        *)
(***************************************************************************)
EXTENDS Integers, Sequences, FiniteSets, TLC

VARIABLES
    overflow_checks,  \* TRUE: arithmetic overflow panics; FALSE: it wraps
    pc,               \* position of the run
    vin,              \* varint: the value given to encode_be
    vbuf,             \* varint: the bytes given to decode_be
    venc,             \* varint: result of encode_be
    vdec,             \* varint: result of decode_be
    file,             \* the database file on disk (never written)
    db,               \* the Database, or None
    page,             \* the BtreePage, or None
    req,              \* page number given to the last read_page_header
    cells,            \* result of the last get_page_cells
    io,               \* seeks and reads on db.file during the last call
    ret,              \* result of the last call
    cell,             \* the Cell given to CellContent::parse
    cfile,            \* the bytes of the file from the cell's offset on
    content,          \* result of CellContent::parse
    payload,          \* the Payload calculate_spillage is called on
    spill,            \* result of Payload::calculate_spillage
    rserials,         \* the serial types the payload's record was written with
    rpayload,         \* the payload bytes given to Record::load_fields
    record,           \* the Record
    rret              \* result of Record::load_fields

varintVars == <<vin, vbuf, venc, vdec>>
pageVars == <<file, db, page, req, cells, io, ret>>
cellVars == <<cell, cfile, content, payload, spill>>
recVars == <<rserials, rpayload, record, rret>>
vars == <<overflow_checks, pc, varintVars, pageVars, cellVars, recVars>>

None == [tag |-> "None"]
NoIo == [seeks |-> 0, reads |-> 0]
NoCall == [op |-> "", tag |-> "None", err |-> ""]

(***************************************************************************)
(* Fixed-width unsigned arithmetic on limb sequences.                      *)
(***************************************************************************)
\* Number of base-256 limbs of a u64.
U64Limbs == 8

RECURSIVE ToLimbs(_, _)
\* The w-limb representation of the natural number n (n < 2^31).
ToLimbs(n, w) ==
    IF w = 0 THEN <<>> ELSE <<n % 256>> \o ToLimbs(n \div 256, w - 1)

U64(n) == ToLimbs(n, U64Limbs)

IsZero(a) == \A i \in 1..Len(a) : a[i] = 0

RECURSIVE AddLimbs(_, _, _)
\* a + b + c limb by limb; the result has one limb more: the carry out.
AddLimbs(a, b, c) ==
    IF a = <<>> THEN <<c>>
    ELSE LET s == Head(a) + Head(b) + c
         IN  <<s % 256>> \o AddLimbs(Tail(a), Tail(b), s \div 256)

RECURSIVE SubLimbs(_, _, _)
\* a - b - c limb by limb; the result has one limb more: the borrow out.
SubLimbs(a, b, c) ==
    IF a = <<>> THEN <<c>>
    ELSE LET d == Head(a) - Head(b) - c
         IN  <<(d + 256) % 256>> \o SubLimbs(Tail(a), Tail(b), IF d < 0 THEN 1 ELSE 0)

RECURSIVE MulLimbs(_, _, _)
\* a * k + c for a small factor k (k < 2^22); one limb more: the carry out.
MulLimbs(a, k, c) ==
    IF a = <<>> THEN <<c>>
    ELSE LET p == Head(a) * k + c
         IN  <<p % 256>> \o MulLimbs(Tail(a), k, p \div 256)

RECURSIVE DivLimbs(_, _)
\* Quotient and remainder of a by a small divisor d (0 < d < 2^22).
DivLimbs(a, d) ==
    IF a = <<>> THEN [q |-> <<>>, r |-> 0]
    ELSE LET hi  == DivLimbs(Tail(a), d)
             cur == hi.r * 256 + Head(a)
         IN  [q |-> <<cur \div d>> \o hi.q, r |-> cur % d]

Front(s) == SubSeq(s, 1, Len(s) - 1)
Last(s) == s[Len(s)]

\* Wrapping results and whether the exact result left the width.
WAdd(a, b) == Front(AddLimbs(a, b, 0))
AddOverflows(a, b) == Last(AddLimbs(a, b, 0)) # 0
WSub(a, b) == Front(SubLimbs(a, b, 0))
SubOverflows(a, b) == Last(SubLimbs(a, b, 0)) # 0
WMul(a, k) == Front(MulLimbs(a, k, 0))
MulOverflows(a, k) == Last(MulLimbs(a, k, 0)) # 0

\* a < b, a <= b on equal-width limb sequences.
Lt(a, b) == SubOverflows(a, b)
Le(a, b) == ~Lt(b, a)

\* The value of a as a natural number, when it is below 2^31.
Fits(a) == (\A i \in 5..Len(a) : a[i] = 0) /\ (Len(a) < 4 \/ a[4] < 128)

RECURSIVE ToNat(_)
ToNat(a) == IF a = <<>> THEN 0 ELSE Head(a) + 256 * ToNat(Tail(a))

\* a % d for a divisor d # 0 that is below 2^16 or at least 2^63 (u - 4 is a
\* u16 less a u8 less 4: below 2^16, or wrapped to within 2^9 of 2^64):
\* short division by the small one; at most one subtraction of the large one.
WMod(a, d) ==
    IF \A i \in 3..Len(d) : d[i] = 0
    THEN ToLimbs(DivLimbs(a, ToNat(d)).r, Len(a))
    ELSE IF Lt(a, d) THEN a ELSE WSub(a, d)

(***************************************************************************)
(* varint.rs                                                               *)
(***************************************************************************)
\* u8 ^ 0x80
Xor80(byte) == IF byte >= 128 THEN byte - 128 ELSE byte + 128

\* value << 7 in u64: the bits shifted out are dropped, a shift never panics.
Shl7(a) == WMul(a, 128)

RECURSIVE Shr(_, _)
\* value >> shift for shift a multiple of 7.
Shr(a, shift) == IF shift = 0 THEN a ELSE Shr(DivLimbs(a, 128).q, shift - 7)

RECURSIVE encode_loop(_, _, _)
\* for shift in (0..63).step_by(7).rev(): shift = 56, 49, .., 7, 0.
encode_loop(value_64bit, shift, result) ==
    LET byte_value == Shr(value_64bit, shift)[1] % 128
    IN  IF shift # 0
        THEN IF byte_value = 0 /\ Len(result) = 0
             THEN encode_loop(value_64bit, shift - 7, result)
             ELSE encode_loop(value_64bit, shift - 7, Append(result, byte_value + 128))
        ELSE Append(result, byte_value)

encode_be(value) ==
    LET result == encode_loop(value, 56, <<>>)
    IN  [tag |-> "Ok", value |-> value, byte_sequence |-> result, size |-> Len(result)]

RECURSIVE decode_loop(_, _, _, _)
\* for &byte in input.iter(): i is the 1-based index of the next byte.
decode_loop(input, i, result, position) ==
    IF i > Len(input)
    THEN [tag |-> "Ok", result |-> result, position |-> position]
    ELSE LET byte == input[i]
         IN  IF byte > 127
             THEN IF position > 7
                  THEN [tag |-> "Err", result |-> result, position |-> position]
                  ELSE LET add == U64(Xor80(byte))
                       IN  IF AddOverflows(result, add) /\ overflow_checks
                           THEN [tag |-> "Panic", result |-> result, position |-> position]
                           ELSE decode_loop(input, i + 1, Shl7(WAdd(result, add)), position + 1)
             ELSE IF AddOverflows(result, U64(byte)) /\ overflow_checks
                  THEN [tag |-> "Panic", result |-> result, position |-> position]
                  ELSE [tag |-> "Ok", result |-> WAdd(result, U64(byte)), position |-> position]

decode_be(input) ==
    LET r == decode_loop(input, 1, U64(0), 0)
    IN  CASE r.tag = "Err" ->
               [tag |-> "Err", err |-> "MaxBytesExceededError",
                value |-> U64(0), byte_sequence |-> <<>>, size |-> 0]
          [] r.tag = "Panic" ->
               [tag |-> "Panic", err |-> "attempt to add with overflow",
                value |-> U64(0), byte_sequence |-> <<>>, size |-> 0]
          [] r.tag = "Ok" /\ r.position + 1 > Len(input) ->
               \* input[..=position]: the range ends past the slice
               [tag |-> "Panic", err |-> "range end index out of range",
                value |-> U64(0), byte_sequence |-> <<>>, size |-> 0]
          [] OTHER ->
               [tag |-> "Ok", err |-> "",
                value |-> r.result,
                byte_sequence |-> SubSeq(input, 1, r.position + 1),
                size |-> r.position + 1]

(***************************************************************************)
(* The database file.  A file image is a record                            *)
(*   exists   whether the path names a file                                *)
(*   len      its length in bytes                                          *)
(*   magic    bytes 0..15, pgsize bytes 16..17, reserved byte 20,          *)
(*   pgcount  bytes 28..31                                                 *)
(*   pages    its b-tree pages: flag (byte 0 of the page header),          *)
(*            ncells (bytes 3..4), content (bytes 5..6), rightmost (bytes  *)
(*            8..11 of an interior page) and ptrs, the cell pointer array  *)
(* and every byte not named is 0.  Pages lie in the file at the page size  *)
(* of the format: bytes 16..17 as a big-endian u16, where 1 means 65536.   *)
(***************************************************************************)
DB_HEADER_SIZE == 100
LEAF_BTREE_HEADER_SIZE == 8
INTERIOR_BTREE_HEADER_SIZE == 12
HEADER_STRING_ARR ==
    <<83, 81, 76, 105, 116, 101, 32, 102, 111, 114, 109, 97, 116, 32, 51, 0>>

\* u16::from_be_bytes
U16FromBe(b) == b[1] * 256 + b[2]

\* u32::from_be_bytes as limbs (least significant first).
U32FromBe(b) == <<b[4], b[3], b[2], b[1]>>

\* The page size the file is laid out with.
LayoutPageSize(f) == IF U16FromBe(f.pgsize) = 1 THEN 65536 ELSE U16FromBe(f.pgsize)

InteriorFlags == {2, 5}

\* Byte h of a page's b-tree header and cell pointer array.
PageByte(pg, h) ==
    LET hs == IF pg.flag \in InteriorFlags
              THEN INTERIOR_BTREE_HEADER_SIZE ELSE LEAF_BTREE_HEADER_SIZE
        j  == h - hs
    IN  CASE h = 0 -> pg.flag
          [] h = 3 -> pg.ncells \div 256
          [] h = 4 -> pg.ncells % 256
          [] h = 5 -> pg.content \div 256
          [] h = 6 -> pg.content % 256
          [] h >= 8 /\ h < hs -> pg.rightmost[h - 7]
          [] h >= hs /\ (j \div 2) < Len(pg.ptrs) ->
                IF j % 2 = 0 THEN pg.ptrs[(j \div 2) + 1] \div 256
                             ELSE pg.ptrs[(j \div 2) + 1] % 256
          [] OTHER -> 0

\* The byte at offset off < f.len of the file.
FileByte(f, off) ==
    LET ps   == LayoutPageSize(f)
        pgno == (off \div ps) + 1
        rel  == off % ps
    IN  CASE off < 16 -> f.magic[off + 1]
          [] off \in {16, 17} -> f.pgsize[off - 15]
          [] off = 20 -> f.reserved
          [] off \in 28..31 -> f.pgcount[off - 27]
          [] off >= DB_HEADER_SIZE /\ pgno <= Len(f.pages) ->
                PageByte(f.pages[pgno], IF pgno = 1 THEN rel - DB_HEADER_SIZE ELSE rel)
          [] OTHER -> 0

\* file.seek(SeekFrom::Start(pos)) then file.read_exact(buf) with n = buf.len():
\* Ok with the n bytes at pos, or an error (UnexpectedEof) when the file ends
\* before them; the buffer then holds the bytes that were there.
ReadExactAt(f, pos, n) ==
    LET there(i) == Fits(pos) /\ ToNat(pos) + i < f.len
    IN  [ok    |-> n = 0 \/ there(n - 1),
         bytes |-> [i \in 1..n |-> IF there(i - 1) THEN FileByte(f, ToNat(pos) + i - 1) ELSE 0]]

(***************************************************************************)
(* db.rs                                                                   *)
(***************************************************************************)
Err(e) == [tag |-> "Err", err |-> e]
Panic(e) == [tag |-> "Panic", err |-> e]
Ok == [tag |-> "Ok", err |-> ""]

\* A comparison that leaves out the last byte of the magic string.
validate_db_file_first15(header_str_arr) ==
    IF SubSeq(header_str_arr, 1, 15) = SubSeq(HEADER_STRING_ARR, 1, 15)
    THEN Ok ELSE Err("InvalidDBFileError")

validate_db_file(header_str_arr) ==
    IF header_str_arr = HEADER_STRING_ARR THEN Ok ELSE Err("InvalidDBFileError")

\* Database::new: the Database (tag "Ok") or the error.  The Database keeps
\* the open file and the 100 header bytes, which are those of the file.
Database_new(f) ==
    IF ~f.exists THEN Err("open: no such file")
    ELSE LET rd == ReadExactAt(f, U64(0), DB_HEADER_SIZE)
             header == rd.bytes
         IN  IF ~rd.ok THEN Err("read_exact: database header might be invalid or corrupt")
             ELSE IF validate_db_file(SubSeq(header, 1, 16)).tag = "Err"
                  THEN Err("InvalidDBFileError")
                  ELSE [tag |-> "Ok", err |-> "",
                        page_size |-> U16FromBe(SubSeq(header, 17, 18)),
                        page_count |-> ToNat(U32FromBe(SubSeq(header, 29, 32))),
                        reserved_space |-> header[21]]

(***************************************************************************)
(* btree_page.rs                                                           *)
(***************************************************************************)
get_page_type(flag) ==
    CASE flag = 2 -> "InteriorIndex"
      [] flag = 5 -> "InteriorTable"
      [] flag = 10 -> "LeafIndex"
      [] flag = 13 -> "LeafTable"
      [] OTHER -> "BtreeTypeError"

get_header_size(page_type) ==
    IF page_type \in {"InteriorIndex", "InteriorTable"}
    THEN INTERIOR_BTREE_HEADER_SIZE ELSE LEAF_BTREE_HEADER_SIZE

\* BtreePage::default()
BtreePage_default ==
    [page_type |-> "LeafTable", page_num |-> 0, file_starting_position |-> U64(0),
     num_cells |-> 0, first_cell_start |-> 0, cell_pointers |-> <<>>,
     header_size |-> 8, header |-> <<0, 0, 0, 0, 0, 0, 0, 0>>,
     rightmost_ptr |-> None, page_size |-> 0]

validate_page_num(d, n) ==
    IF n > d.page_count THEN Err("PagesExceededError") ELSE Ok

\* What a call leaves: the page as it now is, the result, the file operations.
Outcome(self, result, seeks, reads) ==
    [page |-> self, ret |-> result, io |-> [seeks |-> seeks, reads |-> reads]]

RECURSIVE read_cell_pointers(_, _, _, _, _, _)
\* for i in (0..limit).step_by(2): nio counts the seeks (= reads) so far.
read_cell_pointers(self, f, base, i, limit, nio) ==
    IF i >= limit THEN Outcome(self, Ok, nio, nio)
    ELSE LET rd == ReadExactAt(f, WAdd(base, U64(i)), 2)
         IN  IF ~rd.ok THEN Outcome(self, Err("read_exact: cell pointer"), nio + 1, nio + 1)
             ELSE read_cell_pointers(
                      [self EXCEPT !.cell_pointers = Append(@, U16FromBe(rd.bytes))],
                      f, base, i + 2, limit, nio + 1)

\* read_page_header from the cell pointer array on.
read_pointer_array(self, f, pg_header_start, nio) ==
    LET cleared == [self EXCEPT !.cell_pointers = <<>>]
        twice   == self.num_cells * 2
    IN  IF twice > 65535 /\ overflow_checks
        THEN Outcome(cleared, Panic("attempt to multiply with overflow"), nio, nio)
        ELSE read_cell_pointers(cleared, f,
                                WAdd(pg_header_start, U64(self.header_size)),
                                0, twice % 65536, nio)

\* read_page_header from the right-most pointer on.
read_rightmost(self, f, pg_header_start) ==
    IF self.page_type \in {"InteriorTable", "InteriorIndex"}
    THEN LET rd == ReadExactAt(f, WSub(WAdd(pg_header_start, U64(self.header_size)), U64(4)), 4)
         IN  IF ~rd.ok THEN Outcome(self, Err("read_exact: right-most pointer"), 2, 2)
             ELSE read_pointer_array(
                      [self EXCEPT !.rightmost_ptr = [tag |-> "Some", value |-> U32FromBe(rd.bytes)]],
                      f, pg_header_start, 2)
    ELSE read_pointer_array([self EXCEPT !.rightmost_ptr = None], f, pg_header_start, 1)

\* (page - 1) as u64, where page - 1 is computed in u32 and has wrapped for page = 0.
PageMinusOne(n) == IF n = 0 THEN <<255, 255, 255, 255, 0, 0, 0, 0>> ELSE U64(n - 1)

\* BtreePage::read_page_header(&mut self, db, page): the fields are assigned
\* in the order of the code, and an early return leaves those assigned so far.
read_page_header(self, d, f, n) ==
    IF validate_page_num(d, n).tag = "Err"
    THEN Outcome(self, Err("PagesExceededError"), 0, 0)
    ELSE IF n = 0 /\ overflow_checks
    THEN Outcome([self EXCEPT !.page_num = n], Panic("attempt to subtract with overflow"), 0, 0)
    ELSE IF MulOverflows(PageMinusOne(n), d.page_size) /\ overflow_checks
    THEN Outcome([self EXCEPT !.page_num = n], Panic("attempt to multiply with overflow"), 0, 0)
    ELSE
    LET fsp   == WMul(PageMinusOne(n), d.page_size)
        start == IF n = 1 THEN U64(100) ELSE fsp
        rd    == ReadExactAt(f, start, 8)
        s1    == [self EXCEPT !.page_num = n,
                              !.file_starting_position = fsp,
                              !.header = rd.bytes]
        type  == get_page_type(rd.bytes[1])
    IN  IF ~rd.ok THEN Outcome(s1, Err("error reading page header"), 1, 1)
        ELSE IF type = "BtreeTypeError" THEN Outcome(s1, Err("BtreeTypeError"), 1, 1)
        ELSE read_rightmost(
                 [s1 EXCEPT !.page_type = type,
                            !.header_size = get_header_size(type),
                            !.num_cells = U16FromBe(SubSeq(rd.bytes, 4, 5)),
                            !.first_cell_start = U16FromBe(SubSeq(rd.bytes, 6, 7))],
                 f, start)

\* BtreePage::new(db): the page (in .page) when .ret is Ok.
BtreePage_new(d, f) ==
    LET r == read_page_header(BtreePage_default, d, f, 1)
    IN  IF r.ret.tag = "Ok"
        THEN [r EXCEPT !.page = [r.page EXCEPT !.page_size = d.page_size]]
        ELSE [r EXCEPT !.page = None]

\* self.page_size - offset, pointers[i + 1] - offset in u16.
U16Sub(a, b) ==
    IF a >= b THEN [tag |-> "Ok", value |-> a - b]
    ELSE IF overflow_checks THEN [tag |-> "Panic", value |-> 0]
    ELSE [tag |-> "Ok", value |-> a - b + 65536]

\* BtreePage::get_page_cells(&self): the cells in .cells when .tag is Ok.
get_page_cells(self) ==
    LET pointers == SortSeq(self.cell_pointers, LAMBDA a, b : a < b)
        size(i) == IF i = Len(pointers)
                   THEN U16Sub(self.page_size, pointers[i])
                   ELSE U16Sub(pointers[i + 1], pointers[i])
    IN  IF \E i \in 1..Len(pointers) : size(i).tag = "Panic"
        THEN [tag |-> "Panic", err |-> "attempt to subtract with overflow", cells |-> <<>>]
        ELSE [tag |-> "Ok", err |-> "",
              cells |-> [i \in 1..Len(pointers) |->
                            [offset |-> pointers[i], size |-> size(i).value]]]

(***************************************************************************)
(* cell.rs                                                                 *)
(***************************************************************************)
\* Payload::default()
Payload_default == [size |-> U64(0), payload |-> <<>>, overflow |-> None]

\* The result of a u64 computation: wrapped tells that a step left the range
\* of u64 (and wrapped around, the build having no overflow checks).
Computed(v, wrapped) == [tag |-> "Ok", err |-> "", value |-> v, wrapped |-> wrapped]
Aborted(e) == [tag |-> "Panic", err |-> e, value |-> U64(0), wrapped |-> FALSE]

\* Payload::calculate_spillage(&self, db, page).  Every step is evaluated in
\* u64; the steps of the match arm taken are the only ones of the arms that
\* are evaluated.
calculate_spillage(self, d, pg) ==
    LET p    == self.size
        ps   == U64(d.page_size)
        rs   == U64(d.reserved_space)
        u    == WSub(ps, rs)
        u12  == WSub(u, U64(12))
        m32  == WMul(u12, 32)
        mq   == DivLimbs(m32, 255).q
        m    == WSub(mq, U64(23))
        pm   == WSub(p, m)
        u4   == WSub(u, U64(4))
        rem  == WMod(pm, u4)
        k    == WAdd(m, rem)
        leaf == pg.page_type = "LeafTable"
        idx  == pg.page_type \in {"LeafIndex", "InteriorIndex"}
        x64  == WMul(u12, 64)
        xq   == DivLimbs(x64, 255).q
        x    == CASE leaf -> WSub(u, U64(35))
                  [] idx -> WSub(xq, U64(23))
                  [] OTHER -> U64(0)
        arm1 == Lt(x, p) /\ ~Lt(x, k)
        arm2 == Lt(x, p) /\ Lt(x, k)
        left == \/ SubOverflows(ps, rs) \/ SubOverflows(u, U64(12))
                \/ MulOverflows(u12, 32) \/ SubOverflows(mq, U64(23))
                \/ SubOverflows(p, m) \/ SubOverflows(u, U64(4))
                \/ AddOverflows(m, rem)
                \/ (leaf /\ SubOverflows(u, U64(35)))
                \/ (idx /\ (MulOverflows(u12, 64) \/ SubOverflows(xq, U64(23))))
                \/ (arm1 /\ SubOverflows(p, k))
                \/ (arm2 /\ SubOverflows(p, m))
    IN  IF overflow_checks /\ left THEN Aborted("arithmetic overflow")
        ELSE IF u4 = U64(0) THEN Aborted("remainder with a divisor of zero")
        ELSE Computed(CASE arm1 -> WSub(p, k) [] arm2 -> WSub(p, m) [] OTHER -> U64(0), left)

\* &s[from..]: the bytes from index from (0-based) on.
SliceFrom(s, from) == SubSeq(s, from + 1, Len(s))

\* What a cell parser returns.
CellErr(e) == [tag |-> "Err", err |-> e, kind |-> "", row_id |-> U64(0),
               left_child_ptr |-> <<0, 0, 0, 0>>, integer_key |-> U64(0), payload |-> None]
CellPanic(e) == [CellErr(e) EXCEPT !.tag = "Panic"]
CellOk(kind, row_id, left, key, pl) ==
    [tag |-> "Ok", err |-> "", kind |-> kind, row_id |-> row_id,
     left_child_ptr |-> left, integer_key |-> key, payload |-> pl]

\* The tail common to the three payload parsers:
\*   if payload.size > cell.size as u64 { overflow = cell_buf[len - 4..] }
\*   payload.payload = cell_buf[start..len - 4] or cell_buf[start..]
\* Ok with the payload, or the panic of a slice out of range.
take_payload(c, cell_buf, size, start) ==
    LET spilled == Lt(U64(c.size), size)
        n       == Len(cell_buf)
    IN  IF spilled /\ n < 4 THEN [tag |-> "Panic", payload |-> None]
        ELSE IF spilled /\ start > n - 4 THEN [tag |-> "Panic", payload |-> None]
        ELSE [tag |-> "Ok",
              payload |-> [size |-> size,
                           payload |-> IF spilled THEN SubSeq(cell_buf, start + 1, n - 4)
                                                  ELSE SliceFrom(cell_buf, start),
                           overflow |-> IF spilled
                                        THEN [tag |-> "Some", value |-> SliceFrom(cell_buf, n - 4)]
                                        ELSE None]]

parse_leaf_table_cell(c, cell_buf) ==
    LET v1 == decode_be(cell_buf)
    IN  IF v1.tag # "Ok" THEN [CellErr(v1.err) EXCEPT !.tag = v1.tag]
        ELSE IF Lt(U64(c.size), v1.value) /\ Len(cell_buf) < 4
        THEN CellPanic("slice index out of range")
        ELSE LET v2 == decode_be(SliceFrom(cell_buf, v1.size))
             IN  IF v2.tag # "Ok" THEN [CellErr(v2.err) EXCEPT !.tag = v2.tag]
                 ELSE \* varint_len now holds the length of the rowid varint alone
                      LET pl == take_payload(c, cell_buf, v1.value, v2.size)
                      IN  IF pl.tag = "Panic" THEN CellPanic("slice index out of range")
                          ELSE CellOk("LeafTable", v2.value, <<0, 0, 0, 0>>, U64(0), pl.payload)

parse_interior_table_cell(cell_buf) ==
    IF Len(cell_buf) < 4 THEN CellPanic("range end index 4 out of range")
    ELSE LET v == decode_be(SliceFrom(cell_buf, 4))
         IN  IF v.tag # "Ok" THEN [CellErr(v.err) EXCEPT !.tag = v.tag]
             ELSE CellOk("InteriorTable", U64(0), U32FromBe(SubSeq(cell_buf, 1, 4)), v.value, None)

parse_leaf_index_cell(c, cell_buf) ==
    LET v == decode_be(cell_buf)
    IN  IF v.tag # "Ok" THEN [CellErr(v.err) EXCEPT !.tag = v.tag]
        ELSE LET pl == take_payload(c, cell_buf, v.value, v.size)
             IN  IF pl.tag = "Panic" THEN CellPanic("slice index out of range")
                 ELSE CellOk("LeafIndex", U64(0), <<0, 0, 0, 0>>, U64(0), pl.payload)

parse_interior_index_cell(c, cell_buf) ==
    IF Len(cell_buf) < 4 THEN CellPanic("range end index 4 out of range")
    ELSE LET v == decode_be(SliceFrom(cell_buf, 4))
         IN  IF v.tag # "Ok" THEN [CellErr(v.err) EXCEPT !.tag = v.tag]
             ELSE LET pl == take_payload(c, cell_buf, v.value, 4 + v.size)
                  IN  IF pl.tag = "Panic" THEN CellPanic("slice index out of range")
                      ELSE CellOk("InteriorIndex", U64(0), U32FromBe(SubSeq(cell_buf, 1, 4)),
                                  U64(0), pl.payload)

\* CellContent::parse(pg, db, cell): bytes are those of the file from
\* pg.file_starting_position + cell.offset on.
CellContent_parse(pg, bytes, c) ==
    IF Len(bytes) < c.size THEN CellErr("read_exact: failed to fill whole buffer")
    ELSE LET cell_buf == SubSeq(bytes, 1, c.size)
         IN  CASE pg.page_type = "LeafTable" -> parse_leaf_table_cell(c, cell_buf)
               [] pg.page_type = "InteriorTable" -> parse_interior_table_cell(cell_buf)
               [] pg.page_type = "LeafIndex" -> parse_leaf_index_cell(c, cell_buf)
               [] pg.page_type = "InteriorIndex" -> parse_interior_index_cell(c, cell_buf)

(***************************************************************************)
(* record.rs                                                               *)
(***************************************************************************)
\* Record::new()
Record_new == [fields |-> None]

\* Field { size, offset, data_type }; size and offset are usize (64 bits).
Field(size, offset, data_type) == [size |-> size, offset |-> offset, data_type |-> data_type]

\* match serial_type { .. }: the size and type of the new field, or the
\* panic of todo!().
serial_field(serial_type) ==
    LET small == \A i \in 2..Len(serial_type) : serial_type[i] = 0
        s     == serial_type[1]
        known(size, data_type) == [tag |-> "Ok", size |-> size, data_type |-> data_type]
    IN  CASE small /\ s = 0 -> known(U64(0), "Null")
          [] small /\ s \in 1..4 -> known(serial_type, "Integer")
          [] small /\ s \in {5, 6} -> known(IF s = 5 THEN U64(6) ELSE U64(8), "Integer")
          [] small /\ s = 7 -> known(U64(8), "Real")
          [] small /\ s = 8 -> known(U64(0), "BooleanFalse")
          [] small /\ s = 9 -> known(U64(0), "BooleanTrue")
          [] small /\ s \in {10, 11} -> [tag |-> "Panic", size |-> U64(0), data_type |-> ""]
          [] OTHER -> IF s % 2 = 0
                      THEN known(DivLimbs(WSub(serial_type, U64(12)), 2).q, "Blob")
                      ELSE known(DivLimbs(WSub(serial_type, U64(13)), 2).q, "Text")

\* What load_fields returns, with the fields it has built when Ok.
Loaded(tag, err, fields) == [tag |-> tag, err |-> err, fields |-> fields]

RECURSIVE load_loop(_, _, _, _, _)
\* while position < header_size as usize { .. }
load_loop(bytes, header_size, position, field_start, fields) ==
    IF ~Lt(U64(position), header_size) THEN Loaded("Ok", "", fields)
    ELSE LET end == IF Lt(U64(position + 9), header_size)
                    THEN position + 9 ELSE ToNat(header_size)
         IN  IF end > Len(bytes) THEN Loaded("Panic", "range end index out of range", <<>>)
             ELSE LET v == decode_be(SubSeq(bytes, position + 1, end))
                      f == serial_field(v.value)
                  IN  IF v.tag # "Ok" THEN Loaded(v.tag, v.err, <<>>)
                      ELSE IF f.tag = "Panic" THEN Loaded("Panic", "not yet implemented", <<>>)
                      ELSE IF overflow_checks /\ AddOverflows(field_start, f.size)
                      THEN Loaded("Panic", "attempt to add with overflow", <<>>)
                      ELSE load_loop(bytes, header_size, position + v.size,
                                     WAdd(field_start, f.size),
                                     Append(fields, Field(f.size, field_start, f.data_type)))

\* Record::load_fields(&mut self, payload): the record as the call leaves it
\* and the result.
load_fields(self, bytes) ==
    IF Len(bytes) < 9
    THEN [record |-> self, ret |-> Loaded("Panic", "range end index 9 out of range", <<>>)]
    ELSE LET v == decode_be(SubSeq(bytes, 1, 9))
             r == load_loop(bytes, v.value, v.size, v.value, <<>>)
         IN  IF v.tag # "Ok" THEN [record |-> self, ret |-> Loaded(v.tag, v.err, <<>>)]
             ELSE IF r.tag # "Ok" THEN [record |-> self, ret |-> r]
             ELSE [record |-> [self EXCEPT !.fields = [tag |-> "Some", value |-> r.fields]],
                   ret |-> r]

(***************************************************************************)
(* The varint codec run: encode_be on a value and decode_be on its bytes,  *)
(* or decode_be on bytes that come from a file.                            *)
(***************************************************************************)
\* Longest byte buffer handed to decode_be.
MaxRawLen == 9

\* Bytes a buffer is made of: a terminating byte, and continuation bytes
\* with all low bits clear and set.
ByteSamples == {1, 128, 255}

RECURSIVE SeqsUpTo(_, _)
\* All sequences over S of length at most n.
SeqsUpTo(S, n) ==
    IF n = 0 THEN {<<>>}
    ELSE LET shorter == SeqsUpTo(S, n - 1)
         IN  shorter \cup {Append(q, b) : q \in {t \in shorter : Len(t) = n - 1}, b \in S}

RawBuffers == SeqsUpTo(ByteSamples, MaxRawLen)

\* 2^k as a u64, k in 0..63.
Pow2(k) == [i \in 1..U64Limbs |-> IF i = (k \div 8) + 1 THEN 2 ^ (k % 8) ELSE 0]

MaxU64 == [i \in 1..U64Limbs |-> 255]

\* Values given to encode_be: every power of two, its predecessor, u64::MAX.
VarintValues ==
    {Pow2(k) : k \in 0..63} \cup {WSub(Pow2(k), U64(1)) : k \in 0..63} \cup {MaxU64}

InitVarint ==
    /\ overflow_checks \in BOOLEAN
    /\ \/ pc = "encode" /\ vin \in VarintValues /\ vbuf = <<>>
       \/ pc = "decode" /\ vin = U64(0) /\ vbuf \in RawBuffers
    /\ venc = None
    /\ vdec = None
    /\ file = None /\ db = None /\ page = None /\ req = 0
    /\ cells = None /\ io = NoIo /\ ret = NoCall
    /\ cell = None /\ cfile = <<>> /\ content = None /\ payload = None /\ spill = None
    /\ rserials = <<>> /\ rpayload = <<>> /\ record = Record_new /\ rret = NoCall

EncodeBe ==
    /\ pc = "encode"
    /\ venc' = encode_be(vin)
    /\ vbuf' = venc'.byte_sequence
    /\ pc' = "decode"
    /\ UNCHANGED <<overflow_checks, vin, vdec, pageVars, cellVars, recVars>>

DecodeBe ==
    /\ pc = "decode"
    /\ vdec' = decode_be(vbuf)
    /\ pc' = IF vdec'.tag = "Panic" THEN "panicked" ELSE "done"
    /\ UNCHANGED <<overflow_checks, vin, vbuf, venc, pageVars, cellVars, recVars>>

NextVarint == EncodeBe \/ DecodeBe

SpecVarint == InitVarint /\ [][NextVarint]_vars

Decoded == pc \in {"done", "panicked"}

\* C1: for every u64 v, decoding encode_be(v) gives back v and a consumed
\* count equal to the length of the encoding, that length is in 1..9, and
\* no decoding consumes more than 9 bytes.
VarintRoundTrip ==
    Decoded =>
        /\ venc.tag = "Ok" =>
              /\ vdec.tag = "Ok"
              /\ vdec.value = vin
              /\ vdec.size = Len(venc.byte_sequence)
              /\ Len(venc.byte_sequence) \in 1..9
        /\ vdec.size <= 9

RECURSIVE Groups7(_, _)
\* The concatenation of the low 7 bits of the first n bytes of buf.
Groups7(buf, n) ==
    IF n = 0 THEN U64(0)
    ELSE WAdd(WMul(Groups7(buf, n - 1), 128), U64(buf[n] % 128))

\* The first index among the first 8 bytes whose high bit is clear, else 0.
FirstClear(buf) ==
    LET clear == {i \in 1..Len(buf) : i <= 8 /\ buf[i] < 128}
    IN  IF clear = {} THEN 0 ELSE CHOOSE i \in clear : \A j \in clear : i <= j

\* C2: with the high bit set on all of the first 8 bytes, decode_be consumes
\* 9 bytes and succeeds whatever the 9th byte's high bit, the value being
\* the 7-bit groups of the first 8 bytes followed by all 8 bits of the 9th;
\* with an earlier byte's high bit clear it stops at that byte and the value
\* is the concatenation of the 7-bit groups read.
VarintCanonical ==
    Decoded =>
        /\ (Len(vbuf) >= 9 /\ FirstClear(vbuf) = 0) =>
              /\ vdec.tag = "Ok"
              /\ vdec.size = 9
              /\ vdec.value = WAdd(WMul(Groups7(vbuf, 8), 256), U64(vbuf[9]))
        /\ FirstClear(vbuf) # 0 =>
              /\ vdec.tag = "Ok"
              /\ vdec.size = FirstClear(vbuf)
              /\ vdec.value = Groups7(vbuf, FirstClear(vbuf))

(***************************************************************************)
(* The page reader run: Database::new on a file, BtreePage::new, then any  *)
(* sequence of read_page_header and get_page_cells on that page.           *)
(***************************************************************************)
\* Most pages of a file, most cells of a page.
MaxPages == 2
MaxCells == 3

\* Bytes 16..17 of the header: page sizes 512, 4096 and 65536.
PageSizeBytes == {<<2, 0>>, <<16, 0>>, <<0, 1>>}

PageSizeOf(b) == IF U16FromBe(b) = 1 THEN 65536 ELSE U16FromBe(b)

\* Cell offsets of a page of ps bytes: cells of 20 bytes at the end of the page.
CellOffsets(ps) == {ps - 20 * k : k \in 1..MaxCells}

\* The offsets of any subset of the cells, in any order of insertion.
PointerArrays(ps) ==
    {q \in SeqsUpTo(CellOffsets(ps), MaxCells) : \A i, j \in 1..Len(q) : i # j => q[i] # q[j]}

MinOf(S) == CHOOSE x \in S : \A y \in S : x <= y

PageImage(flag, ptrs, ps) ==
    [flag |-> flag, ncells |-> Len(ptrs),
     content |-> IF ptrs = <<>> THEN ps % 65536 ELSE MinOf({ptrs[i] : i \in 1..Len(ptrs)}),
     rightmost |-> <<0, 0, 0, 2>>, ptrs |-> ptrs]

\* Page 1 is a table page, leaf or interior, with any pointer array.
FirstPages(ps) == {PageImage(flag, q, ps) : flag \in {13, 5}, q \in PointerArrays(ps)}

\* Later pages: an index leaf, an interior index page whose pointers are not
\* in offset order, a page that is no b-tree page.
LaterPages(ps) ==
    {PageImage(10, <<ps - 20>>, ps), PageImage(2, <<ps - 20, ps - 40>>, ps),
     PageImage(0, <<>>, ps)}

RECURSIVE PageLists(_, _)
PageLists(ps, n) ==
    IF n = 1 THEN {<<p1>> : p1 \in FirstPages(ps)}
    ELSE PageLists(ps, n - 1) \cup
         {Append(l, p) : l \in {m \in PageLists(ps, n - 1) : Len(m) = n - 1}, p \in LaterPages(ps)}

FileImage(exists, magic, b, declared, pages, len) ==
    [exists |-> exists, len |-> len, magic |-> magic, pgsize |-> b, reserved |-> 0,
     pgcount |-> <<0, 0, 0, declared>>, pages |-> pages]

\* Well-formed databases.
GoodFilesOf(b) ==
    {FileImage(TRUE, HEADER_STRING_ARR, b, Len(l), l, Len(l) * PageSizeOf(b)) :
        l \in PageLists(PageSizeOf(b), MaxPages)}

GoodFiles == UNION {GoodFilesOf(b) : b \in PageSizeBytes}

\* Databases of 17 pages of 4096 bytes whose page 1 declares 32768 cells and
\* more: the bytes after the one pointer that is set are zero.
CrowdedFiles ==
    {FileImage(TRUE, HEADER_STRING_ARR, <<16, 0>>, 17,
               <<[PageImage(13, <<4076>>, 4096) EXCEPT !.ncells = n]>>, 17 * 4096) :
        n \in {32768, 32769}}

\* A missing file, a file shorter than its header, a wrong magic string, and
\* a database that declares one page more than the file holds.
OddFiles ==
    LET l == <<PageImage(13, <<4076>>, 4096)>>
    IN  {FileImage(FALSE, HEADER_STRING_ARR, <<16, 0>>, 1, l, 0),
         FileImage(TRUE, HEADER_STRING_ARR, <<16, 0>>, 1, <<>>, 50),
         FileImage(TRUE, [HEADER_STRING_ARR EXCEPT ![16] = 1], <<16, 0>>, 1, l, 4096),
         FileImage(TRUE, HEADER_STRING_ARR, <<16, 0>>, 2, l, 4096)}
        \cup CrowdedFiles

Files == GoodFiles \cup OddFiles

InitPage ==
    /\ overflow_checks \in BOOLEAN
    /\ pc = "open"
    /\ file \in Files
    /\ db = None /\ page = None /\ req = 0
    /\ cells = None /\ io = NoIo /\ ret = NoCall
    /\ vin = U64(0) /\ vbuf = <<>> /\ venc = None /\ vdec = None
    /\ cell = None /\ cfile = <<>> /\ content = None /\ payload = None /\ spill = None
    /\ rserials = <<>> /\ rpayload = <<>> /\ record = Record_new /\ rret = NoCall

After(op, r) == [op |-> op, tag |-> r.tag, err |-> r.err]

DatabaseNew ==
    /\ pc = "open"
    /\ LET r == Database_new(file)
       IN  /\ db' = IF r.tag = "Ok" THEN r ELSE None
           /\ ret' = After("Database::new", r)
           /\ pc' = IF r.tag = "Ok" THEN "db" ELSE "failed"
    /\ io' = [seeks |-> 0, reads |-> IF file.exists THEN 1 ELSE 0]
    /\ UNCHANGED <<overflow_checks, varintVars, cellVars, file, page, req, cells, recVars>>

BtreePageNew ==
    /\ pc = "db"
    /\ LET r == BtreePage_new(db, file)
       IN  /\ page' = r.page
           /\ ret' = After("BtreePage::new", r.ret)
           /\ io' = r.io
           /\ pc' = CASE r.ret.tag = "Ok" -> "page"
                      [] r.ret.tag = "Err" -> "failed"
                      [] OTHER -> "panicked"
    /\ req' = 1
    /\ UNCHANGED <<overflow_checks, varintVars, cellVars, file, db, cells, recVars>>

ReadPageHeader(n) ==
    /\ pc = "page"
    /\ LET r == read_page_header(page, db, file, n)
       IN  /\ page' = r.page
           /\ ret' = After("read_page_header", r.ret)
           /\ io' = r.io
           /\ pc' = IF r.ret.tag = "Panic" THEN "panicked" ELSE "page"
    /\ req' = n
    /\ cells' = None
    /\ UNCHANGED <<overflow_checks, varintVars, cellVars, file, db, recVars>>

GetPageCells ==
    /\ pc = "page"
    /\ cells' = get_page_cells(page)
    /\ ret' = After("get_page_cells", cells')
    /\ io' = NoIo
    /\ pc' = IF cells'.tag = "Panic" THEN "panicked" ELSE "page"
    /\ UNCHANGED <<overflow_checks, varintVars, cellVars, file, db, page, req, recVars>>

NextPage ==
    \/ DatabaseNew
    \/ BtreePageNew
    \/ \E n \in 0..(MaxPages + 1) : ReadPageHeader(n)
    \/ GetPageCells

SpecPage == InitPage /\ [][NextPage]_vars

RECURSIVE SumSizes(_)
SumSizes(cs) == IF cs = <<>> THEN 0 ELSE Head(cs).size + SumSizes(Tail(cs))

\* C3: for a page whose pointer array holds N offsets in any order,
\* get_page_cells returns N cells with strictly increasing offsets; each cell
\* but the highest has size next offset - own offset, the highest has size
\* pageSize - offset and so ends at pageSize, and first offset plus the sum of
\* the sizes is at most pageSize.
PageCellParity ==
    ret.op = "get_page_cells" =>
        LET N  == Len(page.cell_pointers)
            ps == LayoutPageSize(file)
            cs == cells.cells
        IN  /\ cells.tag = "Ok"
            /\ Len(cs) = N
            /\ \A i \in 1..(N - 1) :
                  /\ cs[i].offset < cs[i + 1].offset
                  /\ cs[i].size = cs[i + 1].offset - cs[i].offset
            /\ N > 0 =>
                  /\ cs[N].size = ps - cs[N].offset
                  /\ cs[N].offset + cs[N].size = ps
                  /\ cs[1].offset + SumSizes(cs) <= ps

\* C6: read_page_header(db, n) succeeds only for 1 <= n <= pageCount, the page
\* it produces then has number n and fileOffset (n-1)*pageSize; for n = 0 and
\* for n > pageCount it returns the out-of-range error before any seek or read.
ReadPageHeaderRange ==
    ret.op = "read_page_header" =>
        /\ ret.tag = "Ok" =>
              /\ 1 <= req /\ req <= db.page_count
              /\ page.page_num = req
              /\ page.file_starting_position = WMul(U64(req - 1), db.page_size)
        /\ (req = 0 \/ req > db.page_count) =>
              /\ ret.tag = "Err" /\ ret.err = "PagesExceededError"
              /\ io = NoIo

\* C7: Database::new reports page size 65536 when bytes 16..17 hold 1 and the
\* big-endian u16 stored there otherwise, that page size gives the page file
\* offsets (n-1)*pageSize and the size of a page's highest-offset cell;
\* pageCount is the big-endian u32 at 28 and reservedSpacePerPage the byte at 20.
EffectivePageSize ==
    /\ db # None =>
          /\ db.page_size = PageSizeOf(file.pgsize)
          /\ db.page_count = ToNat(U32FromBe(file.pgcount))
          /\ db.reserved_space = file.reserved
    /\ (ret.op \in {"read_page_header", "BtreePage::new"} /\ ret.tag = "Ok") =>
          page.file_starting_position = U64((req - 1) * PageSizeOf(file.pgsize))
    /\ (ret.op = "get_page_cells" /\ page.cell_pointers # <<>>) =>
          /\ cells.tag = "Ok"
          /\ Last(cells.cells).size = PageSizeOf(file.pgsize) - Last(cells.cells).offset

(***************************************************************************)
(* The cell run: a Database opened on a file with the given header, a page *)
(* of one of the four types, and either a cell of that page to parse, or a *)
(* Payload built by the caller (its fields are public) to size.            *)
(***************************************************************************)
MaxGap == 2
SpillSlack == 2

\* Header bytes 16..17 of the databases of the run: pages of 4096, 512 and
\* 65536 bytes.
CellPageSizes == <<<<16, 0>>, <<2, 0>>, <<0, 1>>>>
ReservedSpaces == <<0, 8>>
PageTypes == <<"LeafIndex", "LeafTable", "InteriorIndex", "InteriorTable">>
HasPayload(t) == t \in {"LeafTable", "LeafIndex", "InteriorIndex"}

HeaderFile(b, reserved) ==
    [FileImage(TRUE, HEADER_STRING_ARR, b, 1, <<>>, DB_HEADER_SIZE) EXCEPT !.reserved = reserved]

\* The file format's numbers for usable size U, in the integers.
MinLocal(U) == ((U - 12) * 32) \div 255 - 23
MaxLocal(U, t) == IF t = "LeafTable" THEN U - 35 ELSE ((U - 12) * 64) \div 255 - 23
KOf(P, U) == MinLocal(U) + ((P - MinLocal(U)) % (U - 4))
\* Bytes of a P-byte payload that a well-formed cell keeps on the page.
LocalBytes(P, U, t) ==
    IF P <= MaxLocal(U, t) THEN P
    ELSE IF KOf(P, U) <= MaxLocal(U, t) THEN KOf(P, U) ELSE MinLocal(U)

\* The bytes of a well-formed cell of a page of type t with usable size U:
\* payload of P bytes, row id or key rowid, left child 5, overflow page 9.
CellBytes(t, P, rowid, U) ==
    LET left  == IF t \in {"InteriorIndex", "InteriorTable"} THEN <<0, 0, 0, 5>> ELSE <<>>
        psize == IF HasPayload(t) THEN encode_be(U64(P)).byte_sequence ELSE <<>>
        key   == IF t \in {"LeafTable", "InteriorTable"}
                 THEN encode_be(U64(rowid)).byte_sequence ELSE <<>>
        n     == IF HasPayload(t) THEN LocalBytes(P, U, t) ELSE 0
        body  == [i \in 1..n |-> 16 + (i % 100)]
        ovfl  == IF HasPayload(t) /\ P > MaxLocal(U, t) THEN <<0, 0, 0, 9>> ELSE <<>>
    IN  left \o psize \o key \o body \o ovfl

CellPayloads == <<600, 103, 5, 0, 1, 130, 478>>
RowIds == <<1, 300>>
\* Free bytes between the end of the cell and the next cell of the page: none,
\* up to MaxGap, or as many as bring the next cell P bytes after this one.
Gaps(P, len) == (0..MaxGap) \cup (IF P > len THEN {P - len} ELSE {})
Zeros(n) == [i \in 1..n |-> 0]

\* Cells that no writer of the format produces: an empty cell, an unfinished
\* varint, a cell that declares more payload than it holds, a cell of fewer
\* than 4 bytes that declares an overflow, and a file that ends inside the cell.
OddCells ==
    {[size |-> 0, bytes |-> <<>>],
     [size |-> 1, bytes |-> <<128>>],
     [size |-> 5, bytes |-> <<5, 1, 17, 18, 19>>],
     [size |-> 6, bytes |-> <<0, 0, 0, 5, 2, 17>>],
     [size |-> 3, bytes |-> <<9, 1, 17>>],
     [size |-> 9, bytes |-> <<129, 129, 129, 129, 129, 129, 129, 129, 129>>],
     [size |-> 8, bytes |-> <<3, 1, 17, 18, 19>>]}

SpillSizes ==
    {b + d : b \in {0, 39, 102, 477, 489, 547, 1002, 4061, 4581, 8192, 65501, 73719},
             d \in 0..SpillSlack}
        \cup {b - d : b \in {39, 102, 477, 489, 547, 1002, 4061, 4581, 8192, 65501, 73719},
                     d \in 1..SpillSlack}

InitCell ==
    /\ \E c \in 1..2 : overflow_checks = (c = 1)
    /\ \E i \in DOMAIN CellPageSizes, r \in DOMAIN ReservedSpaces :
          file = HeaderFile(CellPageSizes[i], ReservedSpaces[r])
    /\ db = Database_new(file)
    /\ \E t \in DOMAIN PageTypes :
          page = [BtreePage_default EXCEPT !.page_type = PageTypes[t], !.page_num = 1,
                                           !.page_size = db.page_size]
    /\ \/ /\ pc = "spill"
          /\ \E P \in SpillSizes : payload = [Payload_default EXCEPT !.size = U64(P)]
          /\ cell = None /\ cfile = <<>>
       \/ /\ pc = "parse"
          /\ payload = None
          /\ \/ \E p \in DOMAIN CellPayloads, k \in DOMAIN RowIds :
                  LET bytes == CellBytes(page.page_type, CellPayloads[p], RowIds[k],
                                         PageSizeOf(file.pgsize) - file.reserved)
                  IN  \E g \in Gaps(CellPayloads[p], Len(bytes)) :
                          /\ cell = [offset |-> U64(DB_HEADER_SIZE), size |-> Len(bytes) + g]
                          /\ cfile = bytes \o Zeros(g)
             \/ \E o \in OddCells : /\ cell = [offset |-> U64(DB_HEADER_SIZE), size |-> o.size]
                                   /\ cfile = o.bytes
    /\ content = None /\ spill = None
    /\ req = 1 /\ cells = None /\ io = NoIo /\ ret = NoCall
    /\ vin = U64(0) /\ vbuf = <<>> /\ venc = None /\ vdec = None
    /\ rserials = <<>> /\ rpayload = <<>> /\ record = Record_new /\ rret = NoCall

\* CellContent::parse(&page, &mut db, cell)
Parse ==
    /\ pc = "parse"
    /\ content' = CellContent_parse(page, cfile, cell)
    /\ payload' = IF content'.tag = "Ok" /\ HasPayload(content'.kind)
                  THEN content'.payload ELSE None
    /\ pc' = IF content'.tag = "Panic" THEN "panicked"
             ELSE IF payload' # None THEN "spill" ELSE "done"
    /\ UNCHANGED <<overflow_checks, varintVars, pageVars, cell, cfile, spill, recVars>>

\* payload.calculate_spillage(&db, &page)
CalculateSpillage ==
    /\ pc = "spill"
    /\ spill' = calculate_spillage(payload, db, page)
    /\ pc' = IF spill'.tag = "Panic" THEN "panicked" ELSE "done"
    /\ UNCHANGED <<overflow_checks, varintVars, pageVars, cell, cfile, content, payload, recVars>>

NextCell == Parse \/ CalculateSpillage

SpecCell == InitCell /\ [][NextCell]_vars

\* Usable size, payload size and the thresholds of the state, in the integers.
UsableSize == PageSizeOf(file.pgsize) - file.reserved
DeclaredP == ToNat(payload.size)
SpillX == MaxLocal(UsableSize, page.page_type)
SpillCalled == spill # None /\ HasPayload(page.page_type)

\* C4: for usable size U = pageSize - reservedSpacePerPage and a payload size
\* P > X on a table leaf, index leaf or index interior page, with
\* M = ((U-12)*32/255)-23 and K = M + ((P-M) mod (U-4)), calculate_spillage
\* yields P-K when K <= X and P-M otherwise; X is U-35 on a table leaf and
\* ((U-12)*64/255)-23 on an index page, so that with U = 4096 a table leaf has
\* X = 4061 and 4062 is the smallest payload size that spills.
SpillFormula ==
    SpillCalled =>
        /\ DeclaredP > SpillX =>
              /\ spill.tag = "Ok"
              /\ spill.value = U64(IF KOf(DeclaredP, UsableSize) <= SpillX
                                   THEN DeclaredP - KOf(DeclaredP, UsableSize)
                                   ELSE DeclaredP - MinLocal(UsableSize))
        /\ (UsableSize = 4096 /\ page.page_type = "LeafTable") =>
              /\ SpillX = 4061
              /\ (spill.tag = "Ok" /\ spill.value # U64(0)) <=> DeclaredP >= 4062

\* C5: for every payload size P <= X, the sizes P < M among them,
\* calculate_spillage returns normally and reports no spillage, and no step
\* of the computation leaves the range of the unsigned integers; so with
\* U = 4096 every P < 489 returns without error.
NoSpillWhenFits ==
    (SpillCalled /\ DeclaredP <= SpillX) =>
        /\ spill.tag = "Ok"
        /\ spill.value = U64(0)
        /\ ~spill.wrapped

\* The buffer the parser works on and its leading varints.
CellBuf == SubSeq(cfile, 1, cell.size)
LeadLen == IF page.page_type = "InteriorIndex" THEN 4 ELSE 0
SizeVarint == decode_be(SliceFrom(CellBuf, LeadLen))
RowIdVarint == decode_be(SliceFrom(CellBuf, SizeVarint.size))
Parsed(t) == content # None /\ content.tag = "Ok" /\ page.page_type = t
TrailLen == IF content.payload.overflow # None THEN 4 ELSE 0

\* C8: for a LeafTable cell the parser takes payloadSize from the first
\* varint and rowId from the varint right after it, and the inline payload is
\* the bytes of the cell from the end of both varints to the end of the cell
\* buffer, less the last 4 bytes when an overflow pointer is present.
LeafTablePayloadStart ==
    Parsed("LeafTable") =>
        /\ content.payload.size = SizeVarint.value
        /\ content.row_id = RowIdVarint.value
        /\ content.payload.payload =
              SubSeq(CellBuf, SizeVarint.size + RowIdVarint.size + 1, Len(CellBuf) - TrailLen)

\* Bytes of the cell left for the payload: the cell size less the left child
\* pointer and the leading varints.
Available ==
    cell.size - LeadLen - SizeVarint.size
        - (IF page.page_type = "LeafTable" THEN RowIdVarint.size ELSE 0)

\* C9: on LeafTable, LeafIndex and InteriorIndex cells the parser records an
\* overflow pointer exactly when payloadSize exceeds the bytes available for
\* the payload in the cell; a recorded pointer is the last 4 bytes of the cell
\* and the inline payload ends before them, and without one the inline
\* payload ends at the end of the cell.
OverflowDetection ==
    \A t \in {"LeafTable", "LeafIndex", "InteriorIndex"} :
        Parsed(t) =>
            LET pl  == content.payload
                end == Len(CellBuf) - TrailLen
            IN  /\ pl.overflow # None <=> ToNat(pl.size) > Available
                /\ pl.overflow # None =>
                      pl.overflow.value = SliceFrom(CellBuf, Len(CellBuf) - 4)
                /\ pl.payload = SubSeq(CellBuf, end - Len(pl.payload) + 1, end)

\* C10: the parser and the spillage formula agree on every payload-bearing
\* cell: an overflow pointer is recorded exactly when P > X, and the length of
\* the parsed inline payload is the inline byte count the formula gives for P
\* (all P bytes when P <= X; otherwise the value of calculate_spillage, taken
\* either as the inline count itself or as the count that spills).
ParserFormulaAgree ==
    \A t \in {"LeafTable", "LeafIndex", "InteriorIndex"} :
        (Parsed(t) /\ spill # None) =>
            LET pl == content.payload
                P  == ToNat(pl.size)
            IN  /\ pl.overflow # None <=> P > SpillX
                /\ spill.tag = "Ok"
                /\ IF P <= SpillX THEN Len(pl.payload) = P
                   ELSE \/ U64(Len(pl.payload)) = spill.value
                        \/ U64(P - Len(pl.payload)) = spill.value

(***************************************************************************)
(* The record run: a new Record and the payload of a row, load_fields.     *)
(***************************************************************************)
MaxFields == 2

\* The serial types of the run: every row of the serial-type table, the two
\* reserved types, and types whose varint takes two bytes.
SerialTypes == <<1, 0, 2, 3, 4, 5, 6, 7, 8, 9, 12, 13, 14, 15, 300, 301, 10, 11>>

\* The serial-type table of the file format, in the integers.
TableSize(s) ==
    CASE s \in 0..4 -> s
      [] s = 5 -> 6
      [] s \in {6, 7} -> 8
      [] s \in {8, 9} -> 0
      [] s >= 12 /\ s % 2 = 0 -> (s - 12) \div 2
      [] s >= 13 /\ s % 2 = 1 -> (s - 13) \div 2
      [] OTHER -> 0
TableType(s) ==
    CASE s = 0 -> "Null"
      [] s \in 1..6 -> "Integer"
      [] s = 7 -> "Real"
      [] s = 8 -> "BooleanFalse"
      [] s = 9 -> "BooleanTrue"
      [] s >= 12 /\ s % 2 = 0 -> "Blob"
      [] s >= 13 /\ s % 2 = 1 -> "Text"
      [] OTHER -> "reserved"

RECURSIVE SerialBytes(_)
\* The varints of a list of serial types, one after the other.
SerialBytes(sl) ==
    IF sl = <<>> THEN <<>>
    ELSE encode_be(U64(Head(sl))).byte_sequence \o SerialBytes(Tail(sl))

RECURSIVE DataLen(_)
DataLen(sl) == IF sl = <<>> THEN 0 ELSE TableSize(Head(sl)) + DataLen(Tail(sl))

\* Size of the header of a record with these serial types (below 128, so
\* that its own varint takes one byte).
HeaderSize(sl) == 1 + Len(SerialBytes(sl))

\* The payload of a row with these serial types: header size, serial types,
\* the bytes of the columns.
RecordBytes(sl) == <<HeaderSize(sl)>> \o SerialBytes(sl) \o [i \in 1..DataLen(sl) |-> 127]

SerialLists == SeqsUpTo({SerialTypes[i] : i \in DOMAIN SerialTypes}, MaxFields)

\* Bytes after the record in the slice given to load_fields.
Trailing == <<9, 0>>

\* Payloads that are no record: the bytes 04 01 7F, a header size beyond the
\* payload, a serial-type varint cut by the end of the header, and nine
\* continuation bytes.
OddPayloads ==
    {<<4, 1, 127>>,
     <<12, 1, 1, 0, 0, 0, 0, 0, 0>>,
     <<2, 129, 0, 0, 0, 0, 0, 0, 0>>,
     <<129, 129, 129, 129, 129, 129, 129, 129, 129>>}

InitRecord ==
    /\ \E c \in 1..2 : overflow_checks = (c = 1)
    /\ pc = "load"
    /\ \/ \E t \in DOMAIN Trailing, n \in 0..MaxFields :
            \E sl \in {l \in SerialLists : Len(l) = n} :
                /\ rserials = sl
                /\ rpayload = RecordBytes(sl) \o Zeros(Trailing[t])
       \/ /\ rserials = <<>>
          /\ rpayload \in OddPayloads
    /\ record = Record_new /\ rret = NoCall
    /\ file = None /\ db = None /\ page = None /\ req = 0
    /\ cells = None /\ io = NoIo /\ ret = NoCall
    /\ vin = U64(0) /\ vbuf = <<>> /\ venc = None /\ vdec = None
    /\ cell = None /\ cfile = <<>> /\ content = None /\ payload = None /\ spill = None

\* record.load_fields(&payload)
LoadFields ==
    /\ pc = "load"
    /\ LET r == load_fields(record, rpayload)
       IN  /\ record' = r.record
           /\ rret' = [op |-> "load_fields", tag |-> r.ret.tag, err |-> r.ret.err]
           /\ pc' = IF r.ret.tag = "Panic" THEN "panicked" ELSE "done"
    /\ UNCHANGED <<overflow_checks, varintVars, pageVars, cellVars, rserials, rpayload>>

NextRecord == LoadFields

SpecRecord == InitRecord /\ [][NextRecord]_vars

\* The field list the serial-type table gives a record written with the
\* serial types sl: field i lies right after field i - 1, the first one
\* right after the header.
RECURSIVE TableFields(_, _)
TableFields(sl, start) ==
    IF sl = <<>> THEN <<>>
    ELSE <<Field(U64(TableSize(Head(sl))), U64(start), TableType(Head(sl)))>>
             \o TableFields(Tail(sl), start + TableSize(Head(sl)))

IsRecord == rpayload \notin OddPayloads
Reserved(sl) == \E i \in 1..Len(sl) : sl[i] \in {10, 11}

\* C11: for every payload whose record header is complete, payloads shorter
\* than 9 bytes included, load_fields reads headerSize from the first varint
\* and emits one Field per serial-type varint of the header, in order; the
\* first field's offset is headerSize, each later one's the previous offset
\* plus the previous size, and sizes and types follow the serial-type table.
LoadFieldsTable ==
    (rret.op = "load_fields" /\ IsRecord /\ ~Reserved(rserials)) =>
        /\ rret.tag = "Ok"
        /\ record.fields = [tag |-> "Some", value |-> TableFields(rserials, HeaderSize(rserials))]
\* C13: when a serial type of the record header is 10 or 11, load_fields
\* returns an error to its caller and produces no field list; it does not
\* abort the process and emits no field for that serial type.
ReservedSerialError ==
    (rret.op = "load_fields" /\ IsRecord /\ Reserved(rserials)) =>
        /\ rret.tag = "Err"
        /\ record.fields = None

(***************************************************************************)
(* The open run: Database::new on files whose first 16 bytes are the magic *)
(* string or differ from it in one byte, of 100 bytes and more or less.    *)
(***************************************************************************)
\* The magic string with byte i replaced by another value.
AlteredMagics ==
    {[HEADER_STRING_ARR EXCEPT ![i] = (@ + d) % 256] : i \in 1..16, d \in {1, 128}}

FileLengths == <<100, 4096, 50, 16, 99>>

OpenFiles ==
    {[HeaderFile(<<16, 0>>, 0) EXCEPT !.magic = mg, !.len = FileLengths[n]] :
        mg \in AlteredMagics \cup {HEADER_STRING_ARR}, n \in DOMAIN FileLengths}
    \cup {[HeaderFile(b, 0) EXCEPT !.exists = e] : b \in PageSizeBytes, e \in BOOLEAN}

InitOpen ==
    /\ overflow_checks \in BOOLEAN
    /\ pc = "open"
    /\ file \in OpenFiles
    /\ db = None /\ page = None /\ req = 0
    /\ cells = None /\ io = NoIo /\ ret = NoCall
    /\ vin = U64(0) /\ vbuf = <<>> /\ venc = None /\ vdec = None
    /\ cell = None /\ cfile = <<>> /\ content = None /\ payload = None /\ spill = None
    /\ rserials = <<>> /\ rpayload = <<>> /\ record = Record_new /\ rret = NoCall

NextOpen == DatabaseNew

SpecOpen == InitOpen /\ [][NextOpen]_vars

Opened == ret.op = "Database::new"
MagicOk == file.magic = HEADER_STRING_ARR
InvalidFormat == ret.tag = "Err" /\ ret.err = "InvalidDBFileError" /\ db = None

\* C12 as stated: Database::new returns the InvalidFormat error whenever any
\* of the first 16 bytes of the file differs from the magic string, and no
\* Database exists afterwards; with the magic string and at least 100 bytes
\* it succeeds.
InvalidMagicAlways ==
    Opened =>
        /\ (file.exists /\ file.len >= 16 /\ ~MagicOk) => InvalidFormat
        /\ (file.exists /\ file.len >= DB_HEADER_SIZE /\ MagicOk) => (ret.tag = "Ok" /\ db # None)

\* C12 as amended: on a file of at least 100 bytes, Database::new returns the
\* InvalidFormat error whenever any of the first 16 bytes differs from the
\* magic string, and succeeds with the magic string; a file that is missing
\* or shorter than 100 bytes gives the I/O error whatever its first bytes
\* are; after either error no Database exists.
InvalidMagicWhenRead ==
    Opened =>
        /\ (file.exists /\ file.len >= DB_HEADER_SIZE /\ ~MagicOk) => InvalidFormat
        /\ (file.exists /\ file.len >= DB_HEADER_SIZE /\ MagicOk) => (ret.tag = "Ok" /\ db # None)
        /\ (~file.exists \/ file.len < DB_HEADER_SIZE) =>
              (ret.tag = "Err" /\ ret.err # "InvalidDBFileError" /\ db = None)

\* C12, its case: a file of 100 bytes or more with a byte of the magic string
\* altered has been refused as invalid.
InvalidMagicSeen ==
    Opened /\ file.exists /\ file.len >= DB_HEADER_SIZE /\ ~MagicOk /\ InvalidFormat

\* A varint cut by the end of its buffer: every byte (there are at most 8,
\* possibly none) has the continuation bit.
Unterminated(b) == Len(b) <= 8 /\ \A i \in 1..Len(b) : b[i] >= 128

NeedsLeft == page.page_type \in {"InteriorTable", "InteriorIndex"}
FirstVarintInput == SliceFrom(CellBuf, IF NeedsLeft THEN 4 ELSE 0)
FirstVarint == decode_be(FirstVarintInput)
SecondVarintInput == SliceFrom(FirstVarintInput, FirstVarint.size)
CellRead == content # None /\ Len(cfile) >= cell.size

\* The cell buffer is too short for what it declares.
TooShort ==
    \/ NeedsLeft /\ Len(CellBuf) < 4
    \/ ~(NeedsLeft /\ Len(CellBuf) < 4) /\
          \/ Unterminated(FirstVarintInput)
          \/ /\ FirstVarint.tag = "Ok"
             /\ \/ page.page_type = "LeafTable" /\ Unterminated(SecondVarintInput)
                \/ /\ HasPayload(page.page_type)
                   /\ Lt(U64(Len(CellBuf)), FirstVarint.value)
                   /\ Len(CellBuf) < 4

\* C14: when a cell buffer is too short for what it declares (fewer than 4
\* bytes where a left-child pointer or an overflow trailer is required, or a
\* varint whose continuation bytes run to the end of the buffer, the empty
\* buffer included), CellContent::parse and the varint decoder return an
\* error result; they never abort, and the decoder never reports more bytes
\* consumed than the buffer holds.
TruncatedIsError ==
    CellRead =>
        /\ TooShort => content.tag = "Err"
        /\ ~(NeedsLeft /\ Len(CellBuf) < 4) =>
              /\ Unterminated(FirstVarintInput) => FirstVarint.tag = "Err"
              /\ FirstVarint.tag # "Panic"
              /\ FirstVarint.tag = "Ok" => FirstVarint.size <= Len(FirstVarintInput)

\* The page image that read_page_header was asked for, and the pointer the
\* file stores at index i of its array.
PageAsked == file.pages[req]
StoredPointer(i) == IF i <= Len(PageAsked.ptrs) THEN PageAsked.ptrs[i] ELSE 0
HeaderRead == ret.op \in {"read_page_header", "BtreePage::new"} /\ ret.tag = "Ok"

\* C15: after any sequence of read_page_header calls on one BtreePage, right
\* after each successful call the cell-pointer array holds exactly cellCount
\* entries, for every cellCount from 0 to 65535: the big-endian u16 values
\* stored right after the header of the page just read, in stored order, none
\* left over from a page read before; rightmost_ptr is present exactly on an
\* interior page, and header_size is 12 on interior and 8 on leaf pages.
CellPointersAsStored ==
    HeaderRead =>
        /\ Len(page.cell_pointers) = PageAsked.ncells
        /\ \A i \in 1..Len(page.cell_pointers) : page.cell_pointers[i] = StoredPointer(i)
        /\ page.rightmost_ptr # None <=> PageAsked.flag \in InteriorFlags
        /\ page.header_size = IF PageAsked.flag \in InteriorFlags
                              THEN INTERIOR_BTREE_HEADER_SIZE ELSE LEAF_BTREE_HEADER_SIZE

\* C16: if read_page_header returns an error for any reason (page number out
\* of range, unrecognized page-type flag, short read), every field of the
\* BtreePage keeps the value it had before the call, so that the fields
\* always describe one and the same page.
ReadPageHeaderAtomic ==
    [][(ret'.op = "read_page_header" /\ ret'.tag = "Err") => page' = page]_vars

=============================================================================
